---- MODULE Spec2Model ----
(***************************************************************************)
(* Model of the 6502 CPU core of nes-emulator (package cpu).               *)
(*                                                                         *)
(* The state is the CPU struct, the memory behind the ReadWriter the       *)
(* embedder owns, and a record of the call in progress.  One action per    *)
(* exported method (and setFlag).  parseOpcodeMatrix, doAddressMode and    *)
(* the opcode handlers are called by the sources but not part of them;     *)
(* they are modelled from the design document.                             *)
(***************************************************************************)
EXTENDS Integers, Sequences, FiniteSets, TLC

VARIABLES regA, regX, regY, sp, pc, status, bus, instructions,
          fetched, addrAbs, addrRel, opcode, cycles, clockCounter,
          err, ram, matrix, panicked, lastCall, busLog, tics, fetches

cpuRegs == <<regA, regX, regY, sp, pc, status>>
scratch == <<fetched, addrAbs, addrRel, opcode>>
vars == <<regA, regX, regY, sp, pc, status, bus, instructions,
          fetched, addrAbs, addrRel, opcode, cycles, clockCounter,
          err, ram, matrix, panicked, lastCall, busLog, tics, fetches>>

\* Number of Tic calls the embedder makes in one run.
MaxTics == 8

----------------------------------------------------------------------------
\* uint8 / uint16 arithmetic

Byte == 256
Word == 65536

RECURSIVE BitAnd(_, _)
BitAnd(a, b) ==
    IF a = 0 \/ b = 0 THEN 0
    ELSE (a % 2) * (b % 2) + 2 * BitAnd(a \div 2, b \div 2)

BitOr(a, b) == a + b - BitAnd(a, b)

BitNot8(a) == (Byte - 1) - a

Hi(w) == w \div Byte
Lo(w) == w % Byte

----------------------------------------------------------------------------
\* Flags

flagCBit == 1
flagZBit == 2
flagIBit == 4
flagDBit == 8
flagBBit == 16
flagUBit == 32
flagVBit == 64
flagNBit == 128

Flags == {flagCBit, flagZBit, flagIBit, flagDBit,
          flagBBit, flagUBit, flagVBit, flagNBit}

getFlag(s, flag) == BitAnd(s, flag) > 0

setFlagClearsAll(s, flag, v) == IF v THEN BitOr(s, flag) ELSE 0

setFlag(s, flag, v) ==
    IF v THEN BitOr(s, flag) ELSE BitAnd(s, BitNot8(flag))

----------------------------------------------------------------------------
\* Memory behind the ReadWriter interface.  A memory image is a function
\* from the addresses that hold a non-zero byte; every other address reads 0.

NilBus == <<>>
Attached(b) == b # NilBus
Mem(b) == b[1]

Read8(m, addr) == IF addr \in DOMAIN m THEN m[addr] ELSE 0

Read16(m, addr) == Read8(m, addr) + Byte * Read8(m, (addr + 1) % Word)

StackPage == 256
NMIVector == 65530
ResetVector == 65532
IRQVector == 65534

----------------------------------------------------------------------------
\* Addressing modes

addrModeIMM == "IMM"
addrModeZP == "ZP"
addrModeABS == "ABS"
addrModeZPX == "ZPX"
addrModeZPY == "ZPY"
addrModeABSX == "ABSX"
addrModeABSY == "ABSY"
addrModeIND == "IND"
addrModeINDX == "INDX"
addrModeINDY == "INDY"
addrModeREL == "REL"
addrModeACC == "ACC"
addrModeIMP == "IMP"

AddrModes == {addrModeIMM, addrModeZP, addrModeABS, addrModeZPX, addrModeZPY,
              addrModeABSX, addrModeABSY, addrModeIND, addrModeINDX,
              addrModeINDY, addrModeREL, addrModeACC, addrModeIMP}

NilErr == "nil"
ParseErr(s) == <<"address mode couldn't be parsed from", s>>

addrModeFromStringDropsACC(s) ==
    CASE s = addrModeIMM -> [mode |-> addrModeIMM, err |-> NilErr]
      [] s = addrModeZP -> [mode |-> addrModeZP, err |-> NilErr]
      [] s = addrModeABS -> [mode |-> addrModeABS, err |-> NilErr]
      [] s = addrModeZPX -> [mode |-> addrModeZPX, err |-> NilErr]
      [] s = addrModeZPY -> [mode |-> addrModeZPY, err |-> NilErr]
      [] s = addrModeABSX -> [mode |-> addrModeABSX, err |-> NilErr]
      [] s = addrModeABSY -> [mode |-> addrModeABSY, err |-> NilErr]
      [] s = addrModeIND -> [mode |-> addrModeIND, err |-> NilErr]
      [] s = addrModeINDX -> [mode |-> addrModeINDX, err |-> NilErr]
      [] s = addrModeINDY -> [mode |-> addrModeINDY, err |-> NilErr]
      [] s = addrModeREL -> [mode |-> addrModeREL, err |-> NilErr]
      [] s = addrModeIMP -> [mode |-> addrModeIMP, err |-> NilErr]
      [] OTHER -> [mode |-> "UNKNOWN", err |-> NilErr]

addrModeFromString(s) ==
    CASE s = addrModeIMM -> [mode |-> addrModeIMM, err |-> NilErr]
      [] s = addrModeZP -> [mode |-> addrModeZP, err |-> NilErr]
      [] s = addrModeABS -> [mode |-> addrModeABS, err |-> NilErr]
      [] s = addrModeZPX -> [mode |-> addrModeZPX, err |-> NilErr]
      [] s = addrModeZPY -> [mode |-> addrModeZPY, err |-> NilErr]
      [] s = addrModeABSX -> [mode |-> addrModeABSX, err |-> NilErr]
      [] s = addrModeABSY -> [mode |-> addrModeABSY, err |-> NilErr]
      [] s = addrModeIND -> [mode |-> addrModeIND, err |-> NilErr]
      [] s = addrModeINDX -> [mode |-> addrModeINDX, err |-> NilErr]
      [] s = addrModeINDY -> [mode |-> addrModeINDY, err |-> NilErr]
      [] s = addrModeREL -> [mode |-> addrModeREL, err |-> NilErr]
      [] s = addrModeACC -> [mode |-> addrModeACC, err |-> NilErr]
      [] s = addrModeIMP -> [mode |-> addrModeIMP, err |-> NilErr]
      [] OTHER -> [mode |-> "UNKNOWN", err |-> ParseErr(s)]

----------------------------------------------------------------------------
\* Opcode matrix: 16 rows of 16 {mnemonic, addressing-mode token, base cycles}
\* entries; row is the high nibble of the opcode, column the low nibble.
\* XXX marks an opcode the instruction set leaves undefined.

OpcodeMatrix == <<
 << <<"BRK","IMP",7>>, <<"ORA","INDX",6>>, <<"XXX","IMP",2>>, <<"XXX","IMP",8>>, <<"XXX","IMP",3>>, <<"ORA","ZP",3>>, <<"ASL","ZP",5>>, <<"XXX","IMP",5>>, <<"PHP","IMP",3>>, <<"ORA","IMM",2>>, <<"ASL","ACC",2>>, <<"XXX","IMP",2>>, <<"XXX","IMP",4>>, <<"ORA","ABS",4>>, <<"ASL","ABS",6>>, <<"XXX","IMP",6>> >>,
 << <<"BPL","REL",2>>, <<"ORA","INDY",5>>, <<"XXX","IMP",2>>, <<"XXX","IMP",8>>, <<"XXX","IMP",4>>, <<"ORA","ZPX",4>>, <<"ASL","ZPX",6>>, <<"XXX","IMP",6>>, <<"CLC","IMP",2>>, <<"ORA","ABSY",4>>, <<"XXX","IMP",2>>, <<"XXX","IMP",7>>, <<"XXX","IMP",4>>, <<"ORA","ABSX",4>>, <<"ASL","ABSX",7>>, <<"XXX","IMP",7>> >>,
 << <<"JSR","ABS",6>>, <<"AND","INDX",6>>, <<"XXX","IMP",2>>, <<"XXX","IMP",8>>, <<"BIT","ZP",3>>, <<"AND","ZP",3>>, <<"ROL","ZP",5>>, <<"XXX","IMP",5>>, <<"PLP","IMP",4>>, <<"AND","IMM",2>>, <<"ROL","ACC",2>>, <<"XXX","IMP",2>>, <<"BIT","ABS",4>>, <<"AND","ABS",4>>, <<"ROL","ABS",6>>, <<"XXX","IMP",6>> >>,
 << <<"BMI","REL",2>>, <<"AND","INDY",5>>, <<"XXX","IMP",2>>, <<"XXX","IMP",8>>, <<"XXX","IMP",4>>, <<"AND","ZPX",4>>, <<"ROL","ZPX",6>>, <<"XXX","IMP",6>>, <<"SEC","IMP",2>>, <<"AND","ABSY",4>>, <<"XXX","IMP",2>>, <<"XXX","IMP",7>>, <<"XXX","IMP",4>>, <<"AND","ABSX",4>>, <<"ROL","ABSX",7>>, <<"XXX","IMP",7>> >>,
 << <<"RTI","IMP",6>>, <<"EOR","INDX",6>>, <<"XXX","IMP",2>>, <<"XXX","IMP",8>>, <<"XXX","IMP",3>>, <<"EOR","ZP",3>>, <<"LSR","ZP",5>>, <<"XXX","IMP",5>>, <<"PHA","IMP",3>>, <<"EOR","IMM",2>>, <<"LSR","ACC",2>>, <<"XXX","IMP",2>>, <<"JMP","ABS",3>>, <<"EOR","ABS",4>>, <<"LSR","ABS",6>>, <<"XXX","IMP",6>> >>,
 << <<"BVC","REL",2>>, <<"EOR","INDY",5>>, <<"XXX","IMP",2>>, <<"XXX","IMP",8>>, <<"XXX","IMP",4>>, <<"EOR","ZPX",4>>, <<"LSR","ZPX",6>>, <<"XXX","IMP",6>>, <<"CLI","IMP",2>>, <<"EOR","ABSY",4>>, <<"XXX","IMP",2>>, <<"XXX","IMP",7>>, <<"XXX","IMP",4>>, <<"EOR","ABSX",4>>, <<"LSR","ABSX",7>>, <<"XXX","IMP",7>> >>,
 << <<"RTS","IMP",6>>, <<"ADC","INDX",6>>, <<"XXX","IMP",2>>, <<"XXX","IMP",8>>, <<"XXX","IMP",3>>, <<"ADC","ZP",3>>, <<"ROR","ZP",5>>, <<"XXX","IMP",5>>, <<"PLA","IMP",4>>, <<"ADC","IMM",2>>, <<"ROR","ACC",2>>, <<"XXX","IMP",2>>, <<"JMP","IND",5>>, <<"ADC","ABS",4>>, <<"ROR","ABS",6>>, <<"XXX","IMP",6>> >>,
 << <<"BVS","REL",2>>, <<"ADC","INDY",5>>, <<"XXX","IMP",2>>, <<"XXX","IMP",8>>, <<"XXX","IMP",4>>, <<"ADC","ZPX",4>>, <<"ROR","ZPX",6>>, <<"XXX","IMP",6>>, <<"SEI","IMP",2>>, <<"ADC","ABSY",4>>, <<"XXX","IMP",2>>, <<"XXX","IMP",7>>, <<"XXX","IMP",4>>, <<"ADC","ABSX",4>>, <<"ROR","ABSX",7>>, <<"XXX","IMP",7>> >>,
 << <<"XXX","IMP",2>>, <<"STA","INDX",6>>, <<"XXX","IMP",2>>, <<"XXX","IMP",6>>, <<"STY","ZP",3>>, <<"STA","ZP",3>>, <<"STX","ZP",3>>, <<"XXX","IMP",3>>, <<"DEY","IMP",2>>, <<"XXX","IMP",2>>, <<"TXA","IMP",2>>, <<"XXX","IMP",2>>, <<"STY","ABS",4>>, <<"STA","ABS",4>>, <<"STX","ABS",4>>, <<"XXX","IMP",4>> >>,
 << <<"BCC","REL",2>>, <<"STA","INDY",6>>, <<"XXX","IMP",2>>, <<"XXX","IMP",6>>, <<"STY","ZPX",4>>, <<"STA","ZPX",4>>, <<"STX","ZPY",4>>, <<"XXX","IMP",4>>, <<"TYA","IMP",2>>, <<"STA","ABSY",5>>, <<"TXS","IMP",2>>, <<"XXX","IMP",5>>, <<"XXX","IMP",5>>, <<"STA","ABSX",5>>, <<"XXX","IMP",5>>, <<"XXX","IMP",5>> >>,
 << <<"LDY","IMM",2>>, <<"LDA","INDX",6>>, <<"LDX","IMM",2>>, <<"XXX","IMP",6>>, <<"LDY","ZP",3>>, <<"LDA","ZP",3>>, <<"LDX","ZP",3>>, <<"XXX","IMP",3>>, <<"TAY","IMP",2>>, <<"LDA","IMM",2>>, <<"TAX","IMP",2>>, <<"XXX","IMP",2>>, <<"LDY","ABS",4>>, <<"LDA","ABS",4>>, <<"LDX","ABS",4>>, <<"XXX","IMP",4>> >>,
 << <<"BCS","REL",2>>, <<"LDA","INDY",5>>, <<"XXX","IMP",2>>, <<"XXX","IMP",5>>, <<"LDY","ZPX",4>>, <<"LDA","ZPX",4>>, <<"LDX","ZPY",4>>, <<"XXX","IMP",4>>, <<"CLV","IMP",2>>, <<"LDA","ABSY",4>>, <<"TSX","IMP",2>>, <<"XXX","IMP",4>>, <<"LDY","ABSX",4>>, <<"LDA","ABSX",4>>, <<"LDX","ABSY",4>>, <<"XXX","IMP",4>> >>,
 << <<"CPY","IMM",2>>, <<"CMP","INDX",6>>, <<"XXX","IMP",2>>, <<"XXX","IMP",8>>, <<"CPY","ZP",3>>, <<"CMP","ZP",3>>, <<"DEC","ZP",5>>, <<"XXX","IMP",5>>, <<"INY","IMP",2>>, <<"CMP","IMM",2>>, <<"DEX","IMP",2>>, <<"XXX","IMP",2>>, <<"CPY","ABS",4>>, <<"CMP","ABS",4>>, <<"DEC","ABS",6>>, <<"XXX","IMP",6>> >>,
 << <<"BNE","REL",2>>, <<"CMP","INDY",5>>, <<"XXX","IMP",2>>, <<"XXX","IMP",8>>, <<"XXX","IMP",4>>, <<"CMP","ZPX",4>>, <<"DEC","ZPX",6>>, <<"XXX","IMP",6>>, <<"CLD","IMP",2>>, <<"CMP","ABSY",4>>, <<"XXX","IMP",2>>, <<"XXX","IMP",7>>, <<"XXX","IMP",4>>, <<"CMP","ABSX",4>>, <<"DEC","ABSX",7>>, <<"XXX","IMP",7>> >>,
 << <<"CPX","IMM",2>>, <<"SBC","INDX",6>>, <<"XXX","IMP",2>>, <<"XXX","IMP",8>>, <<"CPX","ZP",3>>, <<"SBC","ZP",3>>, <<"INC","ZP",5>>, <<"XXX","IMP",5>>, <<"INX","IMP",2>>, <<"SBC","IMM",2>>, <<"NOP","IMP",2>>, <<"XXX","IMP",2>>, <<"CPX","ABS",4>>, <<"SBC","ABS",4>>, <<"INC","ABS",6>>, <<"XXX","IMP",6>> >>,
 << <<"BEQ","REL",2>>, <<"SBC","INDY",5>>, <<"XXX","IMP",2>>, <<"XXX","IMP",8>>, <<"XXX","IMP",4>>, <<"SBC","ZPX",4>>, <<"INC","ZPX",6>>, <<"XXX","IMP",6>>, <<"SED","IMP",2>>, <<"SBC","ABSY",4>>, <<"XXX","IMP",2>>, <<"XXX","IMP",7>>, <<"XXX","IMP",4>>, <<"SBC","ABSX",4>>, <<"INC","ABSX",7>>, <<"XXX","IMP",7>> >>
>>

MatrixDim == 16
Opcodes == 0 .. 255

\* instruction{}: the zero value make([]instruction, 0x100) fills the table with.
NilFunc == "nil"
ZeroInstruction == [name |-> "", operate |-> NilFunc, addrMode |-> "", cycles |-> 0]

WellShaped(m) ==
    /\ Len(m) = MatrixDim
    /\ \A r \in 1 .. Len(m) : Len(m[r]) = MatrixDim

\* parseOpcodeMatrix: fill slot 16 * row + column from the matrix entry, or
\* fail on a malformed addressing-mode token or a matrix of the wrong shape.
parseOpcodeMatrix(table, m) ==
    IF ~WellShaped(m)
    THEN [instructions |-> table, err |-> <<"opcode matrix has wrong dimensions">>]
    ELSE IF \E r \in 1 .. MatrixDim, k \in 1 .. MatrixDim :
                addrModeFromString(m[r][k][2]).err # NilErr
    THEN [instructions |-> table,
          err |-> LET bad == { m[r][k][2] : r \in 1 .. MatrixDim, k \in 1 .. MatrixDim }
                             \ { t \in AddrModes : addrModeFromString(t).err = NilErr }
                  IN ParseErr(CHOOSE t \in bad : TRUE)]
    ELSE [instructions |->
            [op \in DOMAIN table |->
                LET e == m[(op \div MatrixDim) + 1][(op % MatrixDim) + 1]
                IN [name |-> e[1], operate |-> e[1],
                    addrMode |-> addrModeFromString(e[2]).mode,
                    cycles |-> e[3]]],
          err |-> NilErr]

----------------------------------------------------------------------------
\* The matrix parseOpcodeMatrix reads, as an edit of OpcodeMatrix: unchanged,
\* one addressing-mode token replaced, one row missing, or one row one entry
\* short.

TokenInputs ==
    AddrModes \cup {"", "imm", "Abs", "UNKNOWN", "ABSZ", "IM", "ACCU", "IMP "}

\* Rows whose tokens are replaced: the first, the last and the row of LDA.
EditRows == {1, 11, MatrixDim}

NoEdit == [edit |-> "none", row |-> 1, col |-> 1, token |-> ""]

Sources ==
    {NoEdit}
    \cup [edit : {"token"}, row : EditRows, col : 1 .. MatrixDim,
          token : TokenInputs]
    \cup [edit : {"dropRow", "dropEntry"}, row : 1 .. MatrixDim, col : {1},
          token : {""}]

DropAt(seq, i) == SubSeq(seq, 1, i - 1) \o SubSeq(seq, i + 1, Len(seq))

MatrixOf(s) ==
    CASE s.edit = "token" ->
            [OpcodeMatrix EXCEPT ![s.row][s.col][2] = s.token]
      [] s.edit = "dropRow" -> DropAt(OpcodeMatrix, s.row)
      [] s.edit = "dropEntry" ->
            [OpcodeMatrix EXCEPT ![s.row] = SubSeq(@, 1, MatrixDim - 1)]
      [] OTHER -> OpcodeMatrix

----------------------------------------------------------------------------
\* Construction

ZeroCPU(table) ==
    [regA |-> 0, regX |-> 0, regY |-> 0, sp |-> 0, pc |-> 0, status |-> 0,
     bus |-> NilBus, instructions |-> table,
     fetched |-> 0, addrAbs |-> 0, addrRel |-> 0, opcode |-> 0,
     cycles |-> 0, clockCounter |-> 0]

NewCPUSkipsParse(m) ==
    [cpu |-> [ZeroCPU([op \in Opcodes |-> ZeroInstruction]) EXCEPT !.sp = 255],
     err |-> NilErr]

NewCPUShortTable(m) ==
    LET c == [ZeroCPU([op \in 0 .. 127 |-> ZeroInstruction]) EXCEPT !.sp = 255]
        r == parseOpcodeMatrix(c.instructions, m)
    IN [cpu |-> [c EXCEPT !.instructions = r.instructions], err |-> r.err]

NewCPUStackAtReset(m) ==
    LET c == [ZeroCPU([op \in Opcodes |-> ZeroInstruction]) EXCEPT !.sp = 253]
        r == parseOpcodeMatrix(c.instructions, m)
    IN [cpu |-> [c EXCEPT !.instructions = r.instructions], err |-> r.err]

NewCPUReturnsBoth(m) ==
    LET c == [ZeroCPU([op \in Opcodes |-> ZeroInstruction]) EXCEPT !.sp = 255]
        r == parseOpcodeMatrix(c.instructions, m)
    IN [cpu |-> [c EXCEPT !.instructions = r.instructions], err |-> r.err]

\* NewCPU: (c, nil) or (nil, err).  The nil *CPU is represented by the zero
\* CPU with an empty table; no method is ever called on it.
NewCPU(m) ==
    LET c == [ZeroCPU([op \in Opcodes |-> ZeroInstruction]) EXCEPT !.sp = 255]
        r == parseOpcodeMatrix(c.instructions, m)
    IN IF r.err # NilErr
       THEN [cpu |-> ZeroCPU(<<>>), err |-> r.err]
       ELSE [cpu |-> [c EXCEPT !.instructions = r.instructions], err |-> NilErr]

----------------------------------------------------------------------------
\* The receiver as the resolver and the handlers see it, with the bus
\* accesses of the call in progress collected in io.

Self ==
    [regA |-> regA, regX |-> regX, regY |-> regY, sp |-> sp, pc |-> pc,
     status |-> status, fetched |-> fetched, addrAbs |-> addrAbs,
     addrRel |-> addrRel, opcode |-> opcode, io |-> <<>>]

Rd(c, m, a) ==
    [c EXCEPT !.io = Append(@, [op |-> "R", addr |-> a, data |-> Read8(m, a)])]

Rd16(c, m, a) == Rd(Rd(c, m, a), m, (a + 1) % Word)

\* Consume one / two operand bytes at pc.
Operand8(c, m) == [Rd(c, m, c.pc) EXCEPT !.pc = (c.pc + 1) % Word]
Operand16(c, m) == [Rd16(c, m, c.pc) EXCEPT !.pc = (c.pc + 2) % Word]

PageCrossed(a, b) == IF Hi(a) # Hi(b) THEN 1 ELSE 0

ZeroPageWord(m, z) == Read8(m, z % Byte) + Byte * Read8(m, (z + 1) % Byte)

resolveABSXNoCarry(c, m) ==
    LET base == Read16(m, c.pc)
        ea == (base + c.regX) % Word
    IN [c |-> [Operand16(c, m) EXCEPT !.addrAbs = ea], n |-> 0]

resolveABSX(c, m) ==
    LET base == Read16(m, c.pc)
        ea == (base + c.regX) % Word
    IN [c |-> [Operand16(c, m) EXCEPT !.addrAbs = ea], n |-> PageCrossed(base, ea)]

resolveABSY(c, m) ==
    LET base == Read16(m, c.pc)
        ea == (base + c.regY) % Word
    IN [c |-> [Operand16(c, m) EXCEPT !.addrAbs = ea], n |-> PageCrossed(base, ea)]

resolveINDY(c, m) ==
    LET t == Read8(m, c.pc)
        base == ZeroPageWord(m, t)
        ea == (base + c.regY) % Word
    IN [c |-> [Rd(Rd(Operand8(c, m), m, t), m, (t + 1) % Byte) EXCEPT !.addrAbs = ea],
        n |-> PageCrossed(base, ea)]

resolveINDX(c, m) ==
    LET z == (Read8(m, c.pc) + c.regX) % Byte
    IN [c |-> [Rd(Rd(Operand8(c, m), m, z), m, (z + 1) % Byte)
                 EXCEPT !.addrAbs = ZeroPageWord(m, z)],
        n |-> 0]

resolveIND(c, m) ==
    LET ptr == Read16(m, c.pc)
    IN [c |-> [Rd16(Operand16(c, m), m, ptr) EXCEPT !.addrAbs = Read16(m, ptr)],
        n |-> 0]

resolveREL(c, m) ==
    LET t == Read8(m, c.pc)
    IN [c |-> [Operand8(c, m) EXCEPT !.addrRel = IF t >= 128 THEN t + (Word - Byte) ELSE t],
        n |-> 0]

\* doAddressMode: the resolver of the given mode; returns the extra cycles.
doAddressMode(c, m, mode) ==
    CASE mode = addrModeIMM ->
            [c |-> [Operand8(c, m) EXCEPT !.fetched = Read8(m, c.pc)], n |-> 0]
      [] mode = addrModeZP ->
            [c |-> [Operand8(c, m) EXCEPT !.addrAbs = Read8(m, c.pc)], n |-> 0]
      [] mode = addrModeZPX ->
            [c |-> [Operand8(c, m) EXCEPT !.addrAbs = (Read8(m, c.pc) + c.regX) % Byte],
             n |-> 0]
      [] mode = addrModeZPY ->
            [c |-> [Operand8(c, m) EXCEPT !.addrAbs = (Read8(m, c.pc) + c.regY) % Byte],
             n |-> 0]
      [] mode = addrModeABS ->
            [c |-> [Operand16(c, m) EXCEPT !.addrAbs = Read16(m, c.pc)], n |-> 0]
      [] mode = addrModeABSX -> resolveABSX(c, m)
      [] mode = addrModeABSY -> resolveABSY(c, m)
      [] mode = addrModeIND -> resolveIND(c, m)
      [] mode = addrModeINDX -> resolveINDX(c, m)
      [] mode = addrModeINDY -> resolveINDY(c, m)
      [] mode = addrModeREL -> resolveREL(c, m)
      [] OTHER -> [c |-> c, n |-> 0]

----------------------------------------------------------------------------
\* Opcode handlers.  Branches, loads and JMP are modelled; every other
\* mnemonic is a handler with no modelled effect and no extra cycle.

BranchCondition ==
    [BPL |-> <<flagNBit, FALSE>>, BMI |-> <<flagNBit, TRUE>>,
     BVC |-> <<flagVBit, FALSE>>, BVS |-> <<flagVBit, TRUE>>,
     BCC |-> <<flagCBit, FALSE>>, BCS |-> <<flagCBit, TRUE>>,
     BNE |-> <<flagZBit, FALSE>>, BEQ |-> <<flagZBit, TRUE>>]

\* +1 cycle when taken, +1 more when the target is on another page than the
\* instruction following the branch.
Branch(c, taken) ==
    LET target == (c.pc + c.addrRel) % Word
    IN IF taken
       THEN [c |-> [c EXCEPT !.pc = target], n |-> 1 + PageCrossed(target, c.pc)]
       ELSE [c |-> c, n |-> 0]

SetZN(s, v) == setFlag(setFlag(s, flagZBit, v = 0), flagNBit, v >= 128)

Load(c, m, inst, reg) ==
    LET c1 == IF inst.addrMode = addrModeIMM THEN c
              ELSE [Rd(c, m, c.addrAbs) EXCEPT !.fetched = Read8(m, c.addrAbs)]
        c2 == [c1 EXCEPT ![reg] = c1.fetched]
    IN [c |-> [c2 EXCEPT !.status = SetZN(c2.status, c1.fetched)], n |-> 0]

operate(c, m, inst) ==
    CASE inst.operate \in DOMAIN BranchCondition ->
            Branch(c, getFlag(c.status, BranchCondition[inst.operate][1])
                        = BranchCondition[inst.operate][2])
      [] inst.operate = "LDA" -> Load(c, m, inst, "regA")
      [] inst.operate = "LDX" -> Load(c, m, inst, "regX")
      [] inst.operate = "LDY" -> Load(c, m, inst, "regY")
      [] inst.operate = "JMP" -> [c |-> [c EXCEPT !.pc = c.addrAbs], n |-> 0]
      [] OTHER -> [c |-> c, n |-> 0]

----------------------------------------------------------------------------
\* Memory images the embedder attaches.

Program(bytes) == [a \in 0 .. Len(bytes) - 1 |-> bytes[a + 1]]

\* LDA #$10
LoadImmediate == Program(<<169, 16>>)
\* BNE +2
BranchSamePage == Program(<<208, 2>>)
\* BNE -128: the target is on page $FF
BranchOtherPage == Program(<<208, 128>>)
\* LDX #$20 ; LDA $12F0,X
IndexedLoad == Program(<<162, 32, 189, 240, 18>>) @@ (4880 :> 128)
\* LDX #$01 ; LDA $1234,X
IndexedLoadSamePage == Program(<<162, 1, 189, 52, 18>>)
\* JMP $FFFF ; at $FFFF: LDA #  (the operand is the byte at $0000)
JumpToTop == Program(<<76, 255, 255>>) @@ (65535 :> 169)

OneOpcode(op) == Program(<<op>>)

Images ==
    {LoadImmediate, BranchSamePage, BranchOtherPage, IndexedLoad,
     IndexedLoadSamePage, JumpToTop} \cup { OneOpcode(op) : op \in Opcodes }

\* Flags the embedder's setFlag calls touch.
FlagInputs == {flagZBit, flagIBit}

----------------------------------------------------------------------------
\* Actions

Live == err = NilErr /\ ~panicked

\* Write the receiver back.
Store(c) ==
    /\ regA' = c.regA /\ regX' = c.regX /\ regY' = c.regY
    /\ sp' = c.sp /\ pc' = c.pc /\ status' = c.status
    /\ fetched' = c.fetched /\ addrAbs' = c.addrAbs /\ addrRel' = c.addrRel
    /\ opcode' = c.opcode
    /\ busLog' = c.io

\* The state NewCPU leaves, before the embedder has done anything.
Constructed ==
    LET r == NewCPU(OpcodeMatrix)
    IN /\ matrix = NoEdit
       /\ regA = r.cpu.regA /\ regX = r.cpu.regX /\ regY = r.cpu.regY
       /\ sp = r.cpu.sp /\ pc = r.cpu.pc /\ status = r.cpu.status
       /\ bus = r.cpu.bus /\ instructions = r.cpu.instructions
       /\ fetched = r.cpu.fetched /\ addrAbs = r.cpu.addrAbs
       /\ addrRel = r.cpu.addrRel /\ opcode = r.cpu.opcode
       /\ cycles = r.cpu.cycles /\ clockCounter = r.cpu.clockCounter
       /\ err = r.err
       /\ panicked = FALSE
       /\ lastCall = "NewCPU"
       /\ busLog = <<>>
       /\ tics = 0
       /\ fetches = <<>>

Init == Constructed /\ ram \in Images

ConnectBus ==
    /\ Live
    /\ bus' = <<ram>>
    /\ lastCall' = "ConnectBus"
    /\ busLog' = <<>>
    /\ UNCHANGED <<cpuRegs, scratch, instructions, cycles, clockCounter,
                   err, ram, matrix, panicked, tics, fetches>>

SetFlagClearsAll ==
    /\ Live
    /\ \E flag \in FlagInputs, v \in BOOLEAN :
          status' = setFlagClearsAll(status, flag, v)
    /\ lastCall' = "setFlag"
    /\ busLog' = <<>>
    /\ UNCHANGED <<regA, regX, regY, sp, pc, scratch, bus, instructions, cycles,
                   clockCounter, err, ram, matrix, panicked, tics, fetches>>

SetFlag ==
    /\ Live
    /\ \E flag \in FlagInputs, v \in BOOLEAN :
          status' = setFlag(status, flag, v)
    /\ lastCall' = "setFlag"
    /\ busLog' = <<>>
    /\ UNCHANGED <<regA, regX, regY, sp, pc, scratch, bus, instructions, cycles,
                   clockCounter, err, ram, matrix, panicked, tics, fetches>>

TicBusySkipsByte ==
    /\ cycles # 0
    /\ cycles' = cycles - 1
    /\ pc' = (pc + 1) % Word
    /\ busLog' = <<>>
    /\ UNCHANGED <<regA, regX, regY, sp, status, scratch, bus, instructions,
                   clockCounter, err, ram, matrix, panicked, fetches>>

TicBusyStuck ==
    /\ cycles # 0
    /\ busLog' = <<>>
    /\ UNCHANGED <<cpuRegs, scratch, bus, instructions, cycles, clockCounter,
                   err, ram, matrix, panicked, fetches>>

\* if c.cycles != 0 { c.cycles--; return }
TicBusy ==
    /\ cycles # 0
    /\ cycles' = cycles - 1
    /\ busLog' = <<>>
    /\ UNCHANGED <<cpuRegs, scratch, bus, instructions, clockCounter,
                   err, ram, matrix, panicked, fetches>>

\* c.bus.Read8 on the nil interface: the call panics.
TicNilBus ==
    /\ cycles = 0
    /\ bus = NilBus
    /\ panicked' = TRUE
    /\ busLog' = <<>>
    /\ UNCHANGED <<cpuRegs, scratch, bus, instructions, cycles, clockCounter,
                   err, ram, matrix, fetches>>

CyclesWithoutExtra(inst, cycleCount1, cycleCount2) == inst.cycles % Byte

NextPCNoWrap(p) == p + 1

\* c.pc++, in uint16
NextPC(p) == (p + 1) % Word

\* inst.cycles + cycleCount1 + cycleCount2, in uint8
Cycles(inst, cycleCount1, cycleCount2) ==
    (inst.cycles + cycleCount1 + cycleCount2) % Byte

TicIdle ==
    /\ cycles = 0
    /\ bus # NilBus
    /\ \E m \in {Mem(bus)} :
       \E c0 \in {[Rd(Self, m, pc) EXCEPT !.opcode = Read8(m, pc),
                                          !.pc = NextPC(pc)]} :
          IF c0.opcode \notin DOMAIN instructions
          THEN \* index out of range
               /\ Store(c0)
               /\ panicked' = TRUE
               /\ UNCHANGED <<cycles, fetches>>
          ELSE \E inst \in {instructions[c0.opcode]} :
               \E r1 \in {doAddressMode(c0, m, inst.addrMode)} :
                  IF inst.operate = NilFunc
                  THEN \* call of a nil func value
                       /\ Store(r1.c)
                       /\ panicked' = TRUE
                       /\ UNCHANGED <<cycles, fetches>>
                  ELSE \E r2 \in {operate(r1.c, m, inst)} :
                          /\ Store(r2.c)
                          /\ cycles' = Cycles(inst, r1.n, r2.n)
                          /\ fetches' = Append(fetches,
                                 [at |-> tics + 1,
                                  cost |-> inst.cycles + r1.n + r2.n,
                                  cycleCount1 |-> r1.n,
                                  cycleCount2 |-> r2.n])
                          /\ UNCHANGED panicked
    /\ UNCHANGED <<bus, instructions, clockCounter, err, ram, matrix>>

Tic ==
    /\ Live
    /\ tics < MaxTics
    /\ tics' = tics + 1
    /\ lastCall' = "Tic"
    /\ (TicBusy \/ TicNilBus \/ TicIdle)

IRQIgnoresMask ==
    /\ Live
    /\ sp' = (sp + Byte - 3) % Byte
    /\ status' = setFlag(status, flagIBit, TRUE)
    /\ pc' = IF Attached(bus) THEN Read16(Mem(bus), IRQVector) ELSE 0
    /\ cycles' = 7
    /\ lastCall' = "IRQ"
    /\ busLog' = <<>>
    /\ fetches' = <<>>
    /\ UNCHANGED <<regA, regX, regY, scratch, bus, instructions, clockCounter,
                   err, ram, matrix, panicked, tics>>

ResetMidInstruction ==
    /\ Live
    /\ regA' = 0 /\ regX' = 0 /\ regY' = 0
    /\ sp' = 253
    /\ status' = BitOr(flagIBit, flagUBit)
    /\ pc' = IF Attached(bus) THEN Read16(Mem(bus), ResetVector) ELSE 0
    /\ cycles' = 8
    /\ lastCall' = "Reset"
    /\ busLog' = <<>>
    /\ fetches' = <<>>
    /\ UNCHANGED <<scratch, bus, instructions, clockCounter,
                   err, ram, matrix, panicked, tics>>

\* func (c *CPU) Reset() {}
Reset ==
    /\ Live
    /\ lastCall' = "Reset"
    /\ busLog' = <<>>
    /\ fetches' = <<>>
    /\ UNCHANGED <<cpuRegs, scratch, bus, instructions, cycles, clockCounter,
                   err, ram, matrix, panicked, tics>>

\* func (c *CPU) IRQ() {}
IRQ ==
    /\ Live
    /\ lastCall' = "IRQ"
    /\ busLog' = <<>>
    /\ fetches' = <<>>
    /\ UNCHANGED <<cpuRegs, scratch, bus, instructions, cycles, clockCounter,
                   err, ram, matrix, panicked, tics>>

\* func (c *CPU) NMI() {}
NMI ==
    /\ Live
    /\ lastCall' = "NMI"
    /\ busLog' = <<>>
    /\ fetches' = <<>>
    /\ UNCHANGED <<cpuRegs, scratch, bus, instructions, cycles, clockCounter,
                   err, ram, matrix, panicked, tics>>

Next == ConnectBus \/ SetFlag \/ Tic \/ Reset \/ IRQ \/ NMI

Spec == Init /\ [][Next]_vars

----------------------------------------------------------------------------
\* NewCPU over every matrix of Sources: the state before the call holds no
\* CPU; Construct is the call.

NoCPUYet ==
    LET z == ZeroCPU(<<>>)
    IN /\ matrix \in Sources
       /\ regA = z.regA /\ regX = z.regX /\ regY = z.regY
       /\ sp = z.sp /\ pc = z.pc /\ status = z.status
       /\ bus = z.bus /\ instructions = z.instructions
       /\ fetched = z.fetched /\ addrAbs = z.addrAbs
       /\ addrRel = z.addrRel /\ opcode = z.opcode
       /\ cycles = z.cycles /\ clockCounter = z.clockCounter
       /\ err = NilErr
       /\ ram = LoadImmediate
       /\ panicked = FALSE
       /\ lastCall = "none"
       /\ busLog = <<>>
       /\ tics = 0
       /\ fetches = <<>>

Construct ==
    /\ lastCall = "none"
    /\ LET r == NewCPU(MatrixOf(matrix))
       IN /\ regA' = r.cpu.regA /\ regX' = r.cpu.regX /\ regY' = r.cpu.regY
          /\ sp' = r.cpu.sp /\ pc' = r.cpu.pc /\ status' = r.cpu.status
          /\ bus' = r.cpu.bus /\ instructions' = r.cpu.instructions
          /\ fetched' = r.cpu.fetched /\ addrAbs' = r.cpu.addrAbs
          /\ addrRel' = r.cpu.addrRel /\ opcode' = r.cpu.opcode
          /\ cycles' = r.cpu.cycles /\ clockCounter' = r.cpu.clockCounter
          /\ err' = r.err
    /\ lastCall' = "NewCPU"
    /\ UNCHANGED <<ram, matrix, panicked, busLog, tics, fetches>>

SpecNewCPU == NoCPUYet /\ [][Construct]_vars

----------------------------------------------------------------------------
\* setFlag over all eight flag bits, from the CPU NewCPU returns.

OneImage == Constructed /\ ram = LoadImmediate

SetAnyFlag ==
    /\ Live
    /\ \E flag \in Flags, v \in BOOLEAN :
          status' = setFlag(status, flag, v)
    /\ lastCall' = "setFlag"
    /\ busLog' = <<>>
    /\ UNCHANGED <<regA, regX, regY, sp, pc, scratch, bus, instructions, cycles,
                   clockCounter, err, ram, matrix, panicked, tics, fetches>>

SpecFlags == OneImage /\ [][SetAnyFlag]_vars

----------------------------------------------------------------------------
\* Absolute,X over a grid of operands and index values:
\* LDX #x ; LDA base,X

XInputs == {0, 1, 16, 255}
BaseInputs == {0, 255, 511, 4660, 4848, 65280, 65535}

IndexedLoadOf(x, base) == Program(<<162, x, 189, Lo(base), Hi(base)>>)

IndexedLoads == { IndexedLoadOf(x, base) : x \in XInputs, base \in BaseInputs }

IndexedImage == Constructed /\ ram \in IndexedLoads

SpecABSX == IndexedImage /\ [][ConnectBus \/ Tic]_vars

----------------------------------------------------------------------------
\* The embedder keeps calling Tic and never calls Reset, IRQ or NMI.

LoadZeroThenBranch == Program(<<169, 0, 208, 2>>)

Scenarios ==
    {LoadImmediate, BranchSamePage, BranchOtherPage, IndexedLoad,
     IndexedLoadSamePage, JumpToTop, LoadZeroThenBranch} \cup IndexedLoads

ScenarioImage == Constructed /\ ram \in Scenarios

SpecTicking == ScenarioImage /\ [][ConnectBus \/ Tic]_vars /\ WF_vars(Tic)

----------------------------------------------------------------------------
\* Properties

\* The step just taken was a call of the named method.
Called(name) == lastCall' = name

IdleTicStep == Called("Tic") /\ tics' = tics + 1 /\ cycles = 0 /\ Attached(bus)
BusyTicStep == Called("Tic") /\ tics' = tics + 1 /\ cycles > 0

\* The three pushes of an interrupt entry, as bus writes.
InterruptPushes(oldSp, oldPc, oldStatus) ==
    << [op |-> "W", addr |-> StackPage + oldSp, data |-> Hi(oldPc)],
       [op |-> "W", addr |-> StackPage + ((oldSp + Byte - 1) % Byte), data |-> Lo(oldPc)],
       [op |-> "W", addr |-> StackPage + ((oldSp + Byte - 2) % Byte),
        data |-> setFlag(setFlag(oldStatus, flagBBit, FALSE), flagUBit, TRUE)] >>

\* C1: after a call of Reset the interrupt-disable flag is set and SP is
\* 0xFD, whatever the state before the call.
C1_ResetSetsIAndSP ==
    lastCall = "Reset" => (getFlag(status, flagIBit) /\ sp = 253)

\* C2: a call of IRQ made while the interrupt-disable flag is set changes
\* none of A, X, Y, SP, PC, status, the remaining-cycle counter and memory.
C2_MaskedIRQIsNoOp ==
    [][(Called("IRQ") /\ getFlag(status, flagIBit))
          => UNCHANGED <<regA, regX, regY, sp, pc, status, cycles, bus, ram>>]_vars

C2_Witness ==
    lastCall = "IRQ" /\ getFlag(status, flagIBit) /\ Attached(bus)

\* C3: a call of NMI, whatever the interrupt-disable flag, pushes PC high,
\* PC low and status (SP down by 3 modulo 256), sets interrupt-disable,
\* loads PC from the NMI vector and leaves a non-zero cycle count.
C3_NMIEntersHandler ==
    [][(Called("NMI") /\ Attached(bus))
          => /\ sp' = (sp + Byte - 3) % Byte
             /\ Len(busLog') >= 3
             /\ SubSeq(busLog', 1, 3) = InterruptPushes(sp, pc, status)
             /\ getFlag(status', flagIBit)
             /\ pc' = Read16(Mem(bus), NMIVector)
             /\ cycles' > 0]_vars

\* C4: a call of IRQ made while the interrupt-disable flag is clear writes
\* PC high, PC low and status (break clear, unused set) to the stack page
\* at SP, SP-1, SP-2, then has interrupt-disable set and PC equal to the
\* word at the IRQ vector.
C4_UnmaskedIRQEntersHandler ==
    [][(Called("IRQ") /\ ~getFlag(status, flagIBit) /\ Attached(bus))
          => /\ Len(busLog') >= 3
             /\ SubSeq(busLog', 1, 3) = InterruptPushes(sp, pc, status)
             /\ sp' = (sp + Byte - 3) % Byte
             /\ getFlag(status', flagIBit)
             /\ pc' = Read16(Mem(bus), IRQVector)]_vars

\* C5: with no Reset/IRQ/NMI in between, the Tic call that fetches an opcode
\* and the Tic call that fetches the next one are exactly
\* base_cycles + c1 + c2 calls apart.
C5_CostIsPulses ==
    \A i \in 1 .. Len(fetches) - 1 :
        fetches[i + 1].at - fetches[i].at = fetches[i].cost

\* C6: an Idle Tic stores the byte at the old PC as the opcode, reads it
\* first, runs the resolver of instructions[opcode] with PC already advanced
\* by one and then its handler, and leaves the remaining-cycle counter at
\* base_cycles + c1 + c2.
C6_IdleTicFetchesAndDispatches ==
    [][(IdleTicStep /\ ~panicked')
          => LET m == Mem(bus)
                 inst == instructions[Read8(m, pc)]
                 c0 == [Self EXCEPT !.opcode = Read8(m, pc), !.pc = (pc + 1) % Word]
                 r1 == doAddressMode(c0, m, inst.addrMode)
                 r2 == operate(r1.c, m, inst)
             IN /\ opcode' = Read8(m, pc)
                /\ busLog'[1] = [op |-> "R", addr |-> pc, data |-> opcode']
                /\ (inst.addrMode \notin {addrModeACC, addrModeIMP}
                       => busLog'[2].addr = (pc + 1) % Word)
                /\ <<regA', regX', regY', sp', pc', status'>>
                      = <<r2.c.regA, r2.c.regX, r2.c.regY, r2.c.sp, r2.c.pc, r2.c.status>>
                /\ <<fetched', addrAbs', addrRel'>>
                      = <<r2.c.fetched, r2.c.addrAbs, r2.c.addrRel>>
                /\ cycles' = inst.cycles + r1.n + r2.n]_vars

\* BNE taken on the same page: 2 + 1 cycles left, PC at the target.
C6_Witness ==
    /\ lastCall = "Tic" /\ tics = 1
    /\ opcode = 208 /\ pc = 4 /\ cycles = 3

\* C7: a Busy Tic lowers the remaining-cycle counter by exactly one, makes
\* no bus access and changes no register, flag, opcode or scratch field.
C7_BusyTicOnlyWaits ==
    [][BusyTicStep
          => /\ cycles' = cycles - 1
             /\ busLog' = <<>>
             /\ UNCHANGED <<regA, regX, regY, sp, pc, status, opcode,
                            fetched, addrAbs, addrRel, bus, ram>>]_vars

C7_Witness ==
    /\ lastCall = "Tic" /\ fetches # <<>>
    /\ fetches[Len(fetches)].at < tics
    /\ cycles > 0

\* C8: after a successful NewCPU every opcode 0..255 has a descriptor whose
\* addressing mode is one of the 13 modes and whose base cost is at least 1.
C8_TableTotalAndValid ==
    err = NilErr =>
        \A op \in Opcodes :
            /\ op \in DOMAIN instructions
            /\ instructions[op].addrMode \in AddrModes
            /\ instructions[op].cycles >= 1

C8_Witness ==
    /\ lastCall = "NewCPU" /\ err = NilErr
    /\ instructions[10].addrMode = addrModeACC
    /\ instructions[169].cycles = 2

\* C9: no call changes the opcode table, it keeps its 256 entries, and an
\* Idle Tic on an attached bus never fails whatever the opcode byte is.
C9_TableReadOnlyDispatchTotal ==
    [][/\ instructions' = instructions
       /\ DOMAIN instructions' = Opcodes
       /\ (IdleTicStep => ~panicked')]_vars

C9_Witness ==
    /\ lastCall = "Tic" /\ Attached(bus) /\ ~panicked
    /\ opcode = 255 /\ fetches # <<>>

\* C10: the CPU a successful NewCPU returns has A = X = Y = 0, PC = 0,
\* status = 0, no cycles remaining, clockCounter = 0, SP = 0xFF and no bus.
C10_FreshCPU ==
    (lastCall = "NewCPU" /\ err = NilErr)
        => /\ regA = 0 /\ regX = 0 /\ regY = 0
           /\ pc = 0 /\ status = 0
           /\ cycles = 0 /\ clockCounter = 0
           /\ sp = 255
           /\ bus = NilBus

C10_Witness ==
    lastCall = "NewCPU" /\ err = NilErr /\ ~panicked /\ tics = 0

\* NewCPU returned no CPU.
IsNilCPU == DOMAIN instructions = {}

ValidTokens ==
    {"IMM", "ZP", "ABS", "ZPX", "ZPY", "ABSX", "ABSY",
     "IND", "INDX", "INDY", "REL", "ACC", "IMP"}

\* The matrix cannot be built into a table: wrong shape or an unknown token.
Malformed(m) ==
    \/ Len(m) # 16
    \/ \E r \in 1 .. Len(m) : Len(m[r]) # 16
    \/ \E r \in 1 .. Len(m) : \E k \in 1 .. Len(m[r]) : m[r][k][2] \notin ValidTokens

\* C11: NewCPU returns an error exactly when it returns no CPU, and a matrix
\* that cannot be built (unknown token, wrong dimensions) makes it return
\* the error and no CPU.
C11_ErrorOrCPU ==
    lastCall = "NewCPU"
        => /\ (err # NilErr) <=> IsNilCPU
           /\ Malformed(MatrixOf(matrix)) => (err # NilErr /\ IsNilCPU)
           /\ ~Malformed(MatrixOf(matrix)) => (err = NilErr /\ ~IsNilCPU)

C11_Witness ==
    /\ lastCall = "NewCPU"
    /\ matrix = [edit |-> "token", row |-> 11, col |-> 10, token |-> "imm"]
    /\ err = ParseErr("imm")
    /\ IsNilCPU

\* C12: a Tic call on a CPU that never had ConnectBus called reports an
\* error; it does not crash.
C12_NoBusTicReportsError ==
    (lastCall = "Tic" /\ bus = NilBus) => ~panicked

\* Bit f of the status byte s.
Bit(s, f) == (s \div f) % 2

\* C13: for every flag f and value v, setFlag(f, v) makes getFlag(f) return
\* v, keeps the other seven bits, is idempotent, and a setFlag call changes
\* no field but status.
C13_SetFlagGetFlag ==
    [][Called("setFlag")
          => /\ \A f \in Flags, v \in BOOLEAN :
                   LET t == setFlag(status, f, v)
                   IN /\ t \in 0 .. 255
                      /\ getFlag(t, f) = v
                      /\ Bit(t, f) = IF v THEN 1 ELSE 0
                      /\ \A g \in Flags \ {f} : Bit(t, g) = Bit(status, g)
                      /\ setFlag(t, f, v) = t
             /\ \E f \in Flags, v \in BOOLEAN : status' = setFlag(status, f, v)
             /\ \E f \in Flags :
                   \A g \in Flags \ {f} : Bit(status', g) = Bit(status, g)
             /\ UNCHANGED <<regA, regX, regY, sp, pc, scratch, bus, instructions,
                            cycles, clockCounter, ram>>]_vars

\* Every bit was set and the overflow flag then cleared.
C13_Witness ==
    lastCall = "setFlag" /\ status = 255 - flagVBit

InterruptStep == Called("Reset") \/ Called("IRQ") \/ Called("NMI")

\* C14: a Reset, IRQ or NMI call made while the remaining-cycle counter is
\* greater than 0 changes none of PC, SP, status, A, X, Y, memory and the
\* remaining-cycle counter.
C14_NoInterruptMidInstruction ==
    [][(InterruptStep /\ cycles > 0)
          => UNCHANGED <<regA, regX, regY, sp, pc, status, cycles, bus, ram>>]_vars

\* An interrupt entry point was called in the middle of the BNE of
\* BranchSamePage.
C14_Witness ==
    /\ lastCall \in {"Reset", "IRQ", "NMI"}
    /\ cycles > 0 /\ cycles < 3
    /\ opcode = 208 /\ pc = 4

\* C15: the Absolute,X resolver consumes two operand bytes, yields the
\* address (base + X) mod 2^16, and reports one extra cycle exactly when the
\* high bytes of base and base + X differ, else none.
C15_AbsoluteX ==
    [][(IdleTicStep /\ ~panicked'
          /\ instructions[Read8(Mem(bus), pc)].addrMode = "ABSX")
          => LET m == Mem(bus)
                 lo == Read8(m, (pc + 1) % 65536)
                 hi == Read8(m, (pc + 2) % 65536)
                 base == lo + 256 * hi
                 ea == (base + regX) % 65536
                 f == fetches'[Len(fetches')]
             IN /\ Len(busLog') >= 3
                /\ busLog'[2] = [op |-> "R", addr |-> (pc + 1) % 65536, data |-> lo]
                /\ busLog'[3] = [op |-> "R", addr |-> (pc + 2) % 65536, data |-> hi]
                /\ pc' = (pc + 3) % 65536
                /\ addrAbs' = ea
                /\ f.cycleCount1 = IF (base \div 256) # (ea \div 256) THEN 1 ELSE 0]_vars

\* LDA $FFFF,X with X = $FF: the address wraps to $00FE on another page.
C15_Witness ==
    /\ lastCall = "Tic" /\ opcode = 189 /\ regX = 255
    /\ addrAbs = 254 /\ pc = 5
    /\ fetches[Len(fetches)].cycleCount1 = 1

\* C16: a call of Reset sets PC to the word at the reset vector, A, X and Y
\* to 0, status to interrupt-disable plus the unused bit, the
\* remaining-cycle counter to a non-zero count, and writes no memory.
C16_ResetLoadsVector ==
    [][(Called("Reset") /\ Attached(bus))
          => /\ pc' = Read16(Mem(bus), ResetVector)
             /\ regA' = 0 /\ regX' = 0 /\ regY' = 0
             /\ status' = flagIBit + flagUBit
             /\ cycles' > 0
             /\ \A i \in 1 .. Len(busLog') : busLog'[i].op # "W"
             /\ UNCHANGED <<bus, ram>>]_vars

\* C17: addrModeFromString accepts exactly the 13 tokens and returns the
\* mode spelled like its input; any other string gives an error and the mode
\* "UNKNOWN", which is none of the 13.  Seen through NewCPU: an accepted
\* token becomes the mode of its slot, a rejected one the returned error.
C17_AddrModeFromString ==
    LET t == matrix.token
        r == addrModeFromString(t)
        slot == 16 * (matrix.row - 1) + (matrix.col - 1)
    IN /\ (r.err = NilErr) <=> (t \in ValidTokens)
       /\ r.err = NilErr => r.mode = t
       /\ r.err # NilErr => (r.mode = "UNKNOWN" /\ r.mode \notin AddrModes)
       /\ AddrModes = ValidTokens
       /\ (lastCall = "NewCPU" /\ matrix.edit = "token")
             => IF t \in ValidTokens
                THEN err = NilErr /\ instructions[slot].addrMode = t
                ELSE err # NilErr /\ IsNilCPU

\* BRK's slot was given the token ACC and the table holds the mode ACC.
C17_Witness ==
    /\ lastCall = "NewCPU"
    /\ matrix = [edit |-> "token", row |-> 1, col |-> 1, token |-> "ACC"]
    /\ err = NilErr
    /\ instructions[0].addrMode = addrModeACC

\* C18: under repeated Tic calls without Reset/IRQ/NMI a counter of k > 0
\* never rises while Busy, each Busy call lowers it by exactly one (so it is
\* 0 after exactly k further calls), it does reach 0, and the call after
\* that fetches the next opcode (as far as the run's Tic calls reach).
C18_BusyReturnsToIdle ==
    /\ [][cycles > 0 => /\ cycles' <= cycles
                        /\ Called("Tic") => (cycles' = cycles - 1 /\ tics' = tics + 1)
                        /\ ~Called("Tic") => (cycles' = cycles /\ tics' = tics)]_vars
    /\ [](fetches # <<>>
            => cycles + tics = fetches[Len(fetches)].cost + fetches[Len(fetches)].at)
    /\ (cycles > 0 /\ tics + cycles <= MaxTics) ~> (cycles = 0)
    /\ (Live /\ Attached(bus) /\ cycles = 0 /\ tics < MaxTics)
          ~> (lastCall = "Tic" /\ fetches # <<>> /\ fetches[Len(fetches)].at = tics)

\* The engine is Idle again exactly cost calls after the fetch.
C18_Witness ==
    /\ lastCall = "Tic" /\ cycles = 0 /\ fetches # <<>>
    /\ tics = fetches[Len(fetches)].at + fetches[Len(fetches)].cost
    /\ fetches[Len(fetches)].cost = 4

\* C20: pc is 16 bits wide and wraps: an Idle Tic that fetches its opcode at
\* 0xFFFF goes on at 0x0000 (the operand, if any, is read there) without a
\* panic, pc never leaves 0..0xFFFF, and the counter stored by an Idle Tic is
\* (inst.cycles + cycleCount1 + cycleCount2) mod 256.
C20_PCWraps ==
    /\ [][(IdleTicStep /\ pc = Word - 1)
             => /\ ~panicked'
                /\ busLog'[1] = [op |-> "R", addr |-> Word - 1,
                                 data |-> Read8(Mem(bus), Word - 1)]
                /\ Len(busLog') > 1 => busLog'[2].addr = 0
                /\ instructions[opcode'].addrMode \in {addrModeIMP, addrModeACC}
                      => pc' = 0]_vars
    /\ [][(IdleTicStep /\ ~panicked')
             => LET f == fetches'[Len(fetches')]
                IN /\ cycles' = (instructions[opcode'].cycles
                                   + f.cycleCount1 + f.cycleCount2) % Byte
                   /\ cycles' \in 0 .. Byte - 1]_vars
    /\ [](pc \in 0 .. Word - 1 /\ cycles \in 0 .. Byte - 1)

\* LDA # fetched at 0xFFFF took its operand from 0x0000.
C20_Witness ==
    /\ lastCall = "Tic" /\ ~panicked
    /\ opcode = 169 /\ pc = 1 /\ regA = 76
    /\ busLog = <<[op |-> "R", addr |-> Word - 1, data |-> 169],
                  [op |-> "R", addr |-> 0, data |-> 76]>>

====
